---- MODULE Spec2Model ----
(***************************************************************************)
(* Model of the G4 leaderboard backend (src/server.ts): the players and    *)
(* scores tables, the token rotation of Auth, the authenticated request    *)
(* pipeline RequestUtil.processAuthRequest and the three endpoints that    *)
(* run through it (POST /score, POST /overrideScore, POST /addAchievement),*)
(* together with the login, force-login and logout endpoints that rotate   *)
(* the same token column.  Further specifications cover the score engine, *)
(* the leaderboard query, the achievements, the registration and a         *)
(* sequential session over every endpoint.                                 *)
(*                                                                         *)
(* Node runs the handlers on one event loop: a handler runs without        *)
(* interruption from one await of a db.query to the next.  One action of   *)
(* the model is therefore one database statement executing (or throwing)   *)
(* followed by the JavaScript continuation up to the next statement that   *)
(* is issued.  Several requests are in flight at once; their statements    *)
(* interleave in any order.                                                *)
(***************************************************************************)
EXTENDS Integers, Sequences, FiniteSets, TLC

\* ---------------------------------------------------------------- bounds
MaxRequests == 2        \* requests sent to the server in one run

\* ------------------------------------------------------------- constants
ScoreLimit == 999999    \* verifyScore: "Block huge scores"
CreateLimit == 2        \* createPlayerScore: if (score.score > 2) return false

Slots == 1..MaxRequests

\* Tokens are 48 hex characters from crypto.randomBytes(24), which do not
\* collide: the n-th token generated for account u is the value <<u, n>>.
\* NullToken is JavaScript null where a token is expected; a client that
\* sends it sends a token that was never issued.
NullToken == <<"", 0>>

\* The uuids a client may send: those of the registered accounts (the
\* domain of players) and one that no row of players has.
UnknownUUID == "u9"

\* Mutant of knownGameModes: the set has one more mode.
knownGameModes_Extended ==
    {"easy", "normal", "hard", "hell", "hades", "denise", "reverse", "nox",
     "polar", "shook", "bogus"}

knownGameModes ==
    {"easy", "normal", "hard", "hell", "hades", "denise", "reverse", "nox",
     "polar", "shook"}

\* Mutant of isPlayerFrostTaco: only the username of the function's name.
isPlayerFrostTaco_OneName(username) == username = "FrostTaco"

isPlayerFrostTaco(username) ==
    username \in {"ForgotMyPwd", "FrostTaco", "scintiIla4evr"}

\* JavaScript numbers.  "+data.score" is any number, not only an integer, so
\* numbers are counted in halves: Num(n) is the integer n and Fraction(n) is
\* n + 0.5.  Order, equality and addition of numbers are those of their
\* counts of halves.
Num(n) == 2 * n

Fraction(n) == 2 * n + 1

\* The score and deathcount columns are "integer": a statement that binds
\* another number to them throws.
IsInteger(x) == x % 2 = 0

VARIABLES
    players,     \* uuid -> [username, accesstoken, achievements]
    scores,      \* the scores table: sequence of rows, in insertion order
    tokenCount,  \* uuid -> number of tokens generateToken produced for it
    req,         \* request number -> the request (Idle before it arrives)
    retired      \* history: uuid -> tokens replaced by a completed request

vars == <<players, scores, tokenCount, req, retired>>

\* ------------------------------------------------------- request inputs
Routes == {"score", "overrideScore", "addAchievement"}

\* request.body.data as the handlers read it: the fields present ("x" in
\* data) and their values.  EmptyObject is {}.
\* object is FALSE for a data that is a truthy primitive (a non-empty string,
\* a non-zero number), on which the "in" operator throws a TypeError.
EmptyObject ==
    [object |-> TRUE, fields |-> {}, mode |-> "", score |-> Num(0),
     deathcount |-> Num(0), achievement |-> ""]

ScoreData(m, s) ==
    [object |-> TRUE, fields |-> {"mode", "score", "deathcount"},
     mode |-> m, score |-> s, deathcount |-> Num(0), achievement |-> ""]

AchievementData(a) ==
    [object |-> TRUE, fields |-> {"achievement"},
     mode |-> "", score |-> Num(0), deathcount |-> Num(0), achievement |-> a]

\* A data such as "abc" or 5.
PrimitiveData == [EmptyObject EXCEPT !.object = FALSE]

\* The (route, data) pairs clients send.  hasData = FALSE is a body with
\* no data field.
Calls ==
    {[route |-> "score", hasData |-> TRUE, data |-> ScoreData("easy", Num(0))],
     [route |-> "overrideScore", hasData |-> TRUE, data |-> ScoreData("easy", Num(1))],
     [route |-> "addAchievement", hasData |-> FALSE, data |-> EmptyObject],
     [route |-> "addAchievement", hasData |-> TRUE, data |-> AchievementData("a1")]}

\* The tokens generated so far for account u.
Issued(u) == {<<u, n>> : n \in 1..tokenCount[u]}

\* The auth part of a body: which of uuid / accesstoken it carries, and
\* their values.  For an account, the token is one generated for it or one
\* never issued.
AuthParts ==
    {[hasUuid |-> FALSE, uuid |-> "", hasToken |-> FALSE, accesstoken |-> NullToken],
     [hasUuid |-> TRUE, uuid |-> "u1", hasToken |-> FALSE, accesstoken |-> NullToken],
     [hasUuid |-> TRUE, uuid |-> UnknownUUID, hasToken |-> TRUE, accesstoken |-> <<"u1", 1>>]}
    \cup UNION {[hasUuid : {TRUE}, uuid : {u}, hasToken : {TRUE},
                 accesstoken : Issued(u) \cup {NullToken}] : u \in DOMAIN players}

\* ------------------------------------------------------------ Auth (pure)
\* Credentials as returned by a SELECT on players; NoCred is null.
NoCred == [uuid |-> "", username |-> "", accesstoken |-> NullToken]

\* Auth.getCredentialsFromUUID when the query does not throw.
getCredentialsFromUUID(uuid) ==
    IF uuid \in DOMAIN players
    THEN [uuid |-> uuid,
          username |-> players[uuid].username,
          accesstoken |-> players[uuid].accesstoken]
    ELSE NoCred

\* Auth.getCredentials when the query does not throw.
getCredentials(username) ==
    IF \E u \in DOMAIN players : players[u].username = username
    THEN getCredentialsFromUUID(
             CHOOSE u \in DOMAIN players : players[u].username = username)
    ELSE NoCred

\* Mutant of verifyAccessToken: the comparison is dropped.
verifyAccessToken_AcceptAll(cred, token) == TRUE

\* Auth.verifyAccessToken: cred.accesstoken === token

verifyAccessToken(cred, token) == cred.accesstoken = token

\* Mutant of generateToken: the same token every time.
generateToken_Constant(uuid) == <<uuid, 1>>

\* Auth.generateToken, called for account uuid: the next unused token.
generateToken(uuid) == <<uuid, tokenCount[uuid] + 1>>

\* Mutant of UpdateToken: the new token is returned but never stored.
UpdateToken_NoWrite(uuid, newToken) == players

\* "UPDATE players SET accesstoken = $2 WHERE uuid = $1"
UpdateToken(uuid, newToken) ==
    [u \in DOMAIN players |->
        IF u = uuid THEN [players[u] EXCEPT !.accesstoken = newToken]
        ELSE players[u]]

\* ------------------------------------------------------ Leaderboard (pure)
\* A row of "SELECT * FROM scores WHERE username = $1 AND gamemode = $2";
\* NoScore is the null getPlayerScore returns.
NoScore == [found |-> FALSE, score |-> Num(0), deathcount |-> Num(0)]

MatchingRows(username, mode) ==
    SelectSeq(scores, LAMBDA row : row.username = username /\ row.gamemode = mode)

\* Leaderboard.getPlayerScore when the query does not throw: query.rows[0].
getPlayerScore(username, mode) ==
    IF mode \notin knownGameModes THEN NoScore
    ELSE LET rows == MatchingRows(username, mode)
         IN IF Len(rows) = 0 THEN NoScore
            ELSE [found |-> TRUE, score |-> rows[1].score,
                  deathcount |-> rows[1].deathcount]

\* Mutant of verifyScore: no upper bound.
verifyScore_NoUpperBound(current, next) ==
    IF next.score < Num(0) THEN FALSE
    ELSE IF ~current.found THEN next.score <= Num(1)
    ELSE next.score = current.score + Num(1)

\* Leaderboard.verifyScore
verifyScore(current, next) ==
    IF next.score < Num(0) THEN FALSE
    ELSE IF next.score > Num(ScoreLimit) THEN FALSE
    ELSE IF ~current.found THEN next.score <= Num(1)
    ELSE next.score = current.score + Num(1)

\* "INSERT INTO scores (username, gamemode, score, deathcount, timestamp)"
InsertScore(username, mode, nugget) ==
    Append(scores, [username |-> username, gamemode |-> mode,
                    score |-> nugget.score, deathcount |-> nugget.deathcount])

\* "UPDATE scores SET score = $2, deathcount = $3, timestamp = $4
\*  WHERE username = $1 AND gamemode = $5"
UpdateScore(username, mode, nugget) ==
    [i \in DOMAIN scores |->
        IF scores[i].username = username /\ scores[i].gamemode = mode
        THEN [scores[i] EXCEPT !.score = nugget.score,
                               !.deathcount = nugget.deathcount]
        ELSE scores[i]]

\* Mutant of Includes: the duplicate check never finds the id.
Includes_Never(seq, x) == FALSE

\* Array.prototype.includes
Includes(seq, x) == \E i \in DOMAIN seq : seq[i] = x

\* JSON.parse(query.rows[0].achievements) of
\* "SELECT * FROM players WHERE username = $1"
getPlayerAchievements(username) ==
    players[CHOOSE u \in DOMAIN players : players[u].username = username].achievements

\* "UPDATE players SET achievements = $1 WHERE username = $2"
UpdateAchievements(username, achievements) ==
    [u \in DOMAIN players |->
        IF players[u].username = username
        THEN [players[u] EXCEPT !.achievements = achievements]
        ELSE players[u]]

\* ------------------------------------------------------------ RequestUtil
\* response.json has not been called.
NoResponse == [sent |-> FALSE]

\* Mutant of respondAuthRequest: data is always null.
respondAuthRequest_DropData(accesstoken, successful, data) ==
    [authError |-> FALSE, accesstoken |-> accesstoken,
     successful |-> successful, data |-> "null"]

\* RequestUtil.respondAuthRequest: the JSON it sends.
respondAuthRequest(accesstoken, successful, data) ==
    [authError |-> FALSE, accesstoken |-> accesstoken,
     successful |-> successful, data |-> data]

\* Mutant of respondAuthRequestErr: the error response carries a token field.
respondAuthRequestErr_WithToken(authErrorString) ==
    [authError |-> TRUE, authErrorString |-> authErrorString,
     accesstoken |-> NullToken]

\* RequestUtil.respondAuthRequestErr: the JSON it sends.
respondAuthRequestErr(authErrorString) ==
    [authError |-> TRUE, authErrorString |-> authErrorString]

\* Mutant of MissingAuthData: the token is checked before the uuid.
MissingAuthData_TokenFirst(body) ==
    IF ~body.hasToken THEN "User access token not provided."
    ELSE IF ~body.hasUuid THEN "User UUID not provided."
    ELSE ""

\* processAuthRequest, "Check whether the auth data is complete": the error
\* to report, "" when both fields are in the body.
MissingAuthData(body) ==
    IF ~body.hasUuid THEN "User UUID not provided."
    ELSE IF ~body.hasToken THEN "User access token not provided."
    ELSE ""

\* processAuthRequest: "if (!requestData) requestData = {}"
RequestData(body) == IF body.hasData THEN body.data ELSE EmptyObject

\* A request.  pc is the database statement the request waits for ("done"
\* once it has responded); body, cred, newaccesstoken, nugget, achievements
\* are the locals of processAuthRequest and of the callback; resp is what
\* response.json was called with.  Once the response is sent the body, cred
\* and nugget are kept, to tell what was answered to what.
\* The other fields are history: stale (the presented token had been
\* replaced by a completed request when this one arrived), mismatch (the
\* presented token was not the stored one when the credentials were read),
\* handlerRan (processCallback was called), returned (what it returned),
\* wrote (the token this request stored), dataWrites (score and achievement
\* statements it executed), threw (one of its database statements threw),
\* scoreReads (SELECTs on scores it issued).  currentScore and allowScore
\* are the locals of setPlayerScore / overridePlayerScore, kept after the
\* response to tell what was decided on what.  pc = "unhandled" is a request
\* whose callback threw: the promise of processAuthRequest is rejected,
\* nobody handles it and response.json is never called.
NoBody ==
    [hasUuid |-> FALSE, uuid |-> "", hasToken |-> FALSE,
     accesstoken |-> NullToken, hasData |-> FALSE, data |-> EmptyObject]

Idle ==
    [pc |-> "idle", route |-> "", body |-> NoBody,
     cred |-> NoCred, newaccesstoken |-> NullToken,
     nugget |-> [score |-> Num(0), deathcount |-> Num(0)],
     achievements |-> <<>>,
     currentScore |-> NoScore, allowScore |-> FALSE,
     resp |-> NoResponse,
     stale |-> FALSE, mismatch |-> FALSE, handlerRan |-> FALSE,
     returned |-> "undefined",
     wrote |-> NullToken, dataWrites |-> 0, threw |-> FALSE, scoreReads |-> 0,
     limit |-> 0, username |-> ""]

\* The request once response.json(resp) was called.
Done(q, resp) ==
    [Idle EXCEPT !.pc = "done", !.route = q.route, !.resp = resp,
                 !.body = q.body,
                 !.cred = q.cred, !.nugget = q.nugget,
                 !.currentScore = q.currentScore, !.allowScore = q.allowScore,
                 !.scoreReads = q.scoreReads, !.limit = q.limit,
                 !.username = q.username,
                 !.stale = q.stale, !.mismatch = q.mismatch,
                 !.handlerRan = q.handlerRan, !.returned = q.returned,
                 !.wrote = q.wrote,
                 !.dataWrites = q.dataWrites, !.threw = q.threw]

\* processAuthRequest, "Successful? (error = null returned)" and the
\* response with the new access token and data.
Finish(q, callbackData) ==
    Done([q EXCEPT !.returned = callbackData],
         respondAuthRequest(q.newaccesstoken, callbackData # "null", callbackData))

\* processAuthRequest: "return RequestUtil.respondAuthRequestErr(...)".  The
\* data of the body was never read and is not kept.
Reject(q, authErrorString) ==
    Done([q EXCEPT !.body.hasData = FALSE, !.body.data = EmptyObject],
         respondAuthRequestErr(authErrorString))

\* Mutant of ScoreCallbackReturn: the write's "return true" is lost, every
\* call reports false.
ScoreCallbackReturn_NeverTrue(op) == "null"

\* What the /score and /overrideScore callbacks return for the boolean op
\* of setPlayerScore / overridePlayerScore: "if (!op) return null; return true".
ScoreCallbackReturn(op) == IF op THEN "true" ELSE "null"

\* processCallback(cred, requestData) up to its first database statement.
HandlerStart(q) ==
    LET data == RequestData(q.body)
        h == [q EXCEPT !.handlerRan = TRUE]
    IN IF ~data.object THEN [h EXCEPT !.pc = "unhandled"]
       ELSE IF q.route \in {"score", "overrideScore"}
       THEN IF {"mode", "score", "deathcount"} \subseteq data.fields
            THEN LET n == [h EXCEPT !.nugget = [score |-> data.score,
                                                 deathcount |-> data.deathcount]]
                 IN IF data.mode \notin knownGameModes
                    THEN Finish(n, ScoreCallbackReturn(FALSE))
                    ELSE [n EXCEPT !.pc = "getPlayerScore"]
            ELSE Finish(h, "null")
       ELSE IF "achievement" \in data.fields
            THEN [h EXCEPT !.pc = "awardSelect"]
            ELSE Finish(h, "false")

\* The request's new contents, and the history of replaced tokens: a
\* pipeline request that answers with a token retires the token it presented.
Continue(r, q) ==
    /\ req' = [req EXCEPT ![r] = q]
    /\ retired' =
         IF /\ q.pc = "done" /\ q.route \in Routes
            /\ ~q.resp.authError /\ q.resp.accesstoken # NullToken
         THEN [retired EXCEPT ![req[r].cred.uuid] = @ \cup {req[r].body.accesstoken}]
         ELSE retired

\* ---------------------------------------------------------------- actions
\* The row createCredentials inserts for a new player: a first token, no
\* achievements.
NewPlayer(uuid, username) ==
    [username |-> username, accesstoken |-> <<uuid, 1>>, achievements |-> <<>>]

\* The state after the registrations in accounts (uuid -> username).
InitWith(accounts) ==
    /\ players = [u \in DOMAIN accounts |-> NewPlayer(u, accounts[u])]
    /\ scores = <<>>
    /\ tokenCount = [u \in DOMAIN accounts |-> 1]
    /\ req = [r \in Slots |-> Idle]
    /\ retired = [u \in DOMAIN accounts |-> {}]

Init == InitWith([u \in {"u1"} |-> "alice"])

\* Requests are numbered in the order they arrive.
NextToArrive(r) ==
    /\ req[r].pc = "idle"
    /\ \A p \in 1..(r - 1) : req[p].pc # "idle"

\* A request with this call and auth part reaches processAuthRequest: the
\* two "in bodyData" checks, then getCredentialsFromUUID is issued.
Receive(r, call, auth) ==
    /\ NextToArrive(r)
    /\ LET body == [hasUuid |-> auth.hasUuid, uuid |-> auth.uuid,
                    hasToken |-> auth.hasToken, accesstoken |-> auth.accesstoken,
                    hasData |-> call.hasData, data |-> call.data]
           q == [Idle EXCEPT !.route = call.route, !.body = body,
                             !.stale = /\ auth.hasUuid /\ auth.hasToken
                                       /\ auth.uuid \in DOMAIN players
                                       /\ auth.accesstoken \in retired[auth.uuid]]
       IN Continue(r, IF MissingAuthData(body) # ""
                      THEN Reject(q, MissingAuthData(body))
                      ELSE [q EXCEPT !.pc = "lookup"])
    /\ UNCHANGED <<players, scores, tokenCount>>

\* A client sends a request to one of the three endpoints.  A body without
\* the auth fields is sent without data: its data is never read.
Arrive(r) ==
    \E call \in Calls, auth \in AuthParts :
        /\ (auth.hasUuid /\ auth.hasToken) \/ ~call.hasData
        /\ Receive(r, call, auth)

\* "SELECT * FROM players WHERE uuid = $1" executes (dbOk) or throws, then
\* the "!cred" and verifyAccessToken checks; on success regenerateToken is
\* issued.
Lookup(r) ==
    /\ req[r].pc = "lookup"
    /\ \E dbOk \in BOOLEAN :
         LET q == req[r]
             cred == IF dbOk THEN getCredentialsFromUUID(q.body.uuid) ELSE NoCred
             m == [q EXCEPT !.threw = ~dbOk,
                            !.mismatch =
                                /\ q.body.uuid \in DOMAIN players
                                /\ players[q.body.uuid].accesstoken # q.body.accesstoken]
         IN Continue(r,
                IF cred = NoCred THEN Reject(m, "User UUID is invalid.")
                ELSE IF ~verifyAccessToken(cred, q.body.accesstoken)
                     THEN Reject(m, "Access token is invalid.")
                     ELSE [m EXCEPT !.cred = cred, !.pc = "rotate"])
    /\ UNCHANGED <<players, scores, tokenCount>>

\* Auth.regenerateToken: the UPDATE executes (dbOk) or throws and null is
\* returned; then requestData is normalised and processCallback is called.
Rotate(r) ==
    /\ req[r].pc = "rotate"
    /\ \E dbOk \in BOOLEAN :
         LET q == req[r]
             newToken == generateToken(q.cred.uuid)
             q1 == [q EXCEPT !.newaccesstoken = IF dbOk THEN newToken ELSE NullToken,
                             !.wrote = IF dbOk THEN newToken ELSE NullToken,
                             !.threw = ~dbOk]
         IN /\ players' = IF dbOk THEN UpdateToken(q.cred.uuid, newToken) ELSE players
            /\ tokenCount' = IF dbOk
                             THEN [tokenCount EXCEPT ![q.cred.uuid] = @ + 1]
                             ELSE tokenCount
            /\ Continue(r, HandlerStart(q1))
    /\ UNCHANGED scores

\* setPlayerScore / overridePlayerScore after getPlayerScore: the SELECT on
\* scores executes (dbOk) or throws (null), then verifyScore (POST /score
\* only), then createPlayerScore or the UPDATE is issued.
GetPlayerScore(r) ==
    /\ req[r].pc = "getPlayerScore"
    /\ \E dbOk \in BOOLEAN :
         LET mode == RequestData(req[r].body).mode
             currentScore == IF dbOk THEN getPlayerScore(req[r].cred.username, mode)
                             ELSE NoScore
             allowScore == req[r].route = "score"
                           /\ verifyScore(currentScore, req[r].nugget)
             q == [req[r] EXCEPT !.threw = @ \/ ~dbOk,
                                 !.scoreReads = @ + 1,
                                 !.currentScore = currentScore,
                                 !.allowScore = allowScore]
             create == IF q.nugget.score > Num(CreateLimit)
                       THEN Finish(q, ScoreCallbackReturn(FALSE))
                       ELSE [q EXCEPT !.pc = "insert"]
         IN Continue(r,
                IF q.route = "score" /\ ~allowScore
                THEN Finish(q, ScoreCallbackReturn(FALSE))
                ELSE IF ~currentScore.found THEN create
                ELSE IF q.route = "score" /\ isPlayerFrostTaco(q.cred.username)
                     THEN [q EXCEPT !.nugget.score = Num(-10), !.pc = "update"]
                     ELSE [q EXCEPT !.pc = "update"])
    /\ UNCHANGED <<players, scores, tokenCount>>

\* createPlayerScore: the INSERT executes or throws; it throws when a bound
\* value is not an integer.
Insert(r) ==
    /\ req[r].pc = "insert"
    /\ \E dbOk \in BOOLEAN :
         LET q == req[r]
             ok == dbOk /\ IsInteger(q.nugget.score) /\ IsInteger(q.nugget.deathcount)
         IN /\ scores' = IF ok
                         THEN InsertScore(q.cred.username, RequestData(q.body).mode,
                                          q.nugget)
                         ELSE scores
            /\ Continue(r, Finish([q EXCEPT !.dataWrites = IF ok THEN @ + 1 ELSE @,
                                            !.threw = @ \/ ~ok],
                                  ScoreCallbackReturn(ok)))
    /\ UNCHANGED <<players, tokenCount>>

\* setPlayerScore / overridePlayerScore: the UPDATE executes or throws; it
\* throws when a bound value is not an integer.
Update(r) ==
    /\ req[r].pc = "update"
    /\ \E dbOk \in BOOLEAN :
         LET q == req[r]
             ok == dbOk /\ IsInteger(q.nugget.score) /\ IsInteger(q.nugget.deathcount)
         IN /\ scores' = IF ok
                         THEN UpdateScore(q.cred.username, RequestData(q.body).mode,
                                          q.nugget)
                         ELSE scores
            /\ Continue(r, Finish([q EXCEPT !.dataWrites = IF ok THEN @ + 1 ELSE @,
                                            !.threw = @ \/ ~ok],
                                  ScoreCallbackReturn(ok)))
    /\ UNCHANGED <<players, tokenCount>>

\* awardPlayerAchievement: the SELECT executes or throws (null), then the
\* includes check, the push, the FrostTaco wipe; the UPDATE is issued.
AwardSelect(r) ==
    /\ req[r].pc = "awardSelect"
    /\ \E dbOk \in BOOLEAN :
         LET q == [req[r] EXCEPT !.threw = @ \/ ~dbOk]
             achievements == getPlayerAchievements(q.cred.username)
             achievement == RequestData(q.body).achievement
         IN Continue(r,
                IF ~dbOk THEN Finish(q, "null")
                ELSE IF Includes(achievements, achievement) THEN Finish(q, "false")
                ELSE [q EXCEPT !.pc = "awardUpdate",
                               !.achievements =
                                   IF isPlayerFrostTaco(q.cred.username) THEN <<>>
                                   ELSE Append(achievements, achievement)])
    /\ UNCHANGED <<players, scores, tokenCount>>

\* Mutant of AwardUpdate: no catch around the UPDATE, the exception leaves
\* the callback and the request gets no response.
AwardUpdate_NoCatch(r) ==
    /\ req[r].pc = "awardUpdate"
    /\ \E dbOk \in BOOLEAN :
         LET q == req[r]
         IN /\ players' = IF dbOk
                          THEN UpdateAchievements(q.cred.username, q.achievements)
                          ELSE players
            /\ Continue(r, IF dbOk
                           THEN Finish([q EXCEPT !.dataWrites = @ + 1], "true")
                           ELSE [q EXCEPT !.threw = TRUE, !.pc = "unhandled"])
    /\ UNCHANGED <<scores, tokenCount>>

\* awardPlayerAchievement: the UPDATE executes (true) or throws (null).
AwardUpdate(r) ==
    /\ req[r].pc = "awardUpdate"
    /\ \E dbOk \in BOOLEAN :
         LET q == req[r]
         IN /\ players' = IF dbOk
                          THEN UpdateAchievements(q.cred.username, q.achievements)
                          ELSE players
            /\ Continue(r, Finish([q EXCEPT !.dataWrites = IF dbOk THEN @ + 1 ELSE @,
                                            !.threw = @ \/ ~dbOk],
                                  IF dbOk THEN "true" ELSE "null"))
    /\ UNCHANGED <<scores, tokenCount>>

\* Auth.regenerateToken(cred) as the three endpoints below call it: the new
\* players table, token counter and returned token (null when the UPDATE
\* throws).
Regenerated(uuid, dbOk) ==
    [players |-> IF dbOk THEN UpdateToken(uuid, generateToken(uuid)) ELSE players,
     tokenCount |-> IF dbOk THEN [tokenCount EXCEPT ![uuid] = @ + 1] ELSE tokenCount,
     token |-> IF dbOk THEN generateToken(uuid) ELSE NullToken]

\* POST /userLogin, POST /userForceLogin and POST /userLogout.  Their SELECT
\* reads only columns no statement changes (uuid, username, hash) and their
\* one UPDATE is regenerateToken's, so each is one step: the step of its
\* UPDATE.
userLogin(r) ==
    /\ NextToArrive(r)
    /\ \E username \in {players[u].username : u \in DOMAIN players} \cup {"nobody"},
          matches \in BOOLEAN, dbOk \in BOOLEAN :
         LET existingCred == getCredentials(username)
             granted == existingCred # NoCred /\ matches
             new == Regenerated(existingCred.uuid, dbOk)
             q == [Idle EXCEPT !.route = "userLogin",
                               !.wrote = IF granted THEN new.token ELSE NullToken,
                               !.threw = granted /\ ~dbOk]
         IN /\ players' = IF granted THEN new.players ELSE players
            /\ tokenCount' = IF granted THEN new.tokenCount ELSE tokenCount
            /\ Continue(r, Done(q,
                   IF granted
                   THEN [successful |-> TRUE, uuid |-> existingCred.uuid,
                         accesstoken |-> new.token]
                   ELSE [successful |-> FALSE, uuid |-> "", accesstoken |-> NullToken]))
    /\ UNCHANGED scores

userForceLogin(r) ==
    /\ NextToArrive(r)
    /\ \E uuid \in DOMAIN players \cup {UnknownUUID}, dbOk \in BOOLEAN :
         LET cred == getCredentialsFromUUID(uuid)
             found == cred # NoCred
             new == Regenerated(cred.uuid, dbOk)
             q == [Idle EXCEPT !.route = "userForceLogin",
                               !.wrote = IF found THEN new.token ELSE NullToken,
                               !.threw = found /\ ~dbOk]
         IN /\ players' = IF found THEN new.players ELSE players
            /\ tokenCount' = IF found THEN new.tokenCount ELSE tokenCount
            /\ Continue(r, Done(q,
                   IF found
                   THEN [successful |-> TRUE, uuid |-> "",
                         accesstoken |-> new.token, username |-> cred.username]
                   ELSE [successful |-> FALSE, uuid |-> "",
                         accesstoken |-> NullToken, username |-> ""]))
    /\ UNCHANGED scores

userLogout(r) ==
    /\ NextToArrive(r)
    /\ \E uuid \in DOMAIN players \cup {UnknownUUID}, dbOk \in BOOLEAN :
         LET existingCred == getCredentialsFromUUID(uuid)
             found == existingCred # NoCred
             new == Regenerated(existingCred.uuid, dbOk)
             q == [Idle EXCEPT !.route = "userLogout",
                               !.body = [NoBody EXCEPT !.hasUuid = TRUE, !.uuid = uuid],
                               !.wrote = IF found THEN new.token ELSE NullToken,
                               !.threw = found /\ ~dbOk]
         IN /\ players' = IF found THEN new.players ELSE players
            /\ tokenCount' = IF found THEN new.tokenCount ELSE tokenCount
            /\ Continue(r, Done(q, [successful |-> TRUE]))
    /\ UNCHANGED scores

Next ==
    \/ \E r \in Slots : Arrive(r)
    \/ \E r \in Slots : Lookup(r)
    \/ \E r \in Slots : Rotate(r)
    \/ \E r \in Slots : GetPlayerScore(r)
    \/ \E r \in Slots : Insert(r)
    \/ \E r \in Slots : Update(r)
    \/ \E r \in Slots : AwardSelect(r)
    \/ \E r \in Slots : AwardUpdate(r)
    \/ \E r \in Slots : userLogin(r)
    \/ \E r \in Slots : userForceLogin(r)
    \/ \E r \in Slots : userLogout(r)

Spec == Init /\ [][Next]_vars

\* A sequential session: request r is sent only after every earlier one was
\* answered.
Answered(r) == \A p \in 1..(r - 1) : req[p].pc = "done"

NextSeq ==
    \/ \E r \in Slots : Answered(r) /\ Arrive(r)
    \/ \E r \in Slots : Lookup(r)
    \/ \E r \in Slots : Rotate(r)
    \/ \E r \in Slots : GetPlayerScore(r)
    \/ \E r \in Slots : Insert(r)
    \/ \E r \in Slots : Update(r)
    \/ \E r \in Slots : AwardSelect(r)
    \/ \E r \in Slots : AwardUpdate(r)
    \/ \E r \in Slots : Answered(r) /\ userLogin(r)
    \/ \E r \in Slots : Answered(r) /\ userForceLogin(r)
    \/ \E r \in Slots : Answered(r) /\ userLogout(r)

SpecSeq == Init /\ [][NextSeq]_vars

\* ------------------------------------------------- every data a body carries
\* The calls of Calls and, for each endpoint, a body whose data is a truthy
\* primitive.
AnyCalls ==
    Calls \cup {[route |-> rt, hasData |-> TRUE, data |-> PrimitiveData] : rt \in Routes}

ArriveAny(r) ==
    \E call \in AnyCalls, auth \in AuthParts :
        /\ (auth.hasUuid /\ auth.hasToken) \/ ~call.hasData
        /\ Receive(r, call, auth)

NextLive ==
    \/ \E r \in Slots : ArriveAny(r)
    \/ \E r \in Slots : Lookup(r)
    \/ \E r \in Slots : Rotate(r)
    \/ \E r \in Slots : GetPlayerScore(r)
    \/ \E r \in Slots : Insert(r)
    \/ \E r \in Slots : Update(r)
    \/ \E r \in Slots : AwardSelect(r)
    \/ \E r \in Slots : AwardUpdate(r)

\* The database answers every statement it was sent, with a result or with
\* an error: a request that waits for a statement eventually takes the step
\* of that statement.  Clients are not bound to send requests.
Answers(r) ==
    /\ WF_vars(Lookup(r))
    /\ WF_vars(Rotate(r))
    /\ WF_vars(GetPlayerScore(r))
    /\ WF_vars(Insert(r))
    /\ WF_vars(Update(r))
    /\ WF_vars(AwardSelect(r))
    /\ WF_vars(AwardUpdate(r))

SpecLive == Init /\ [][NextLive]_vars /\ \A r \in Slots : Answers(r)

\* ------------------------------------------------------ the score engine
\* Leaderboard.getModeScores for timeframe "all" when the query does not
\* throw: the rows of the mode (verified is 0 in every row: no statement
\* sets it), "ORDER BY score DESC LIMIT $2".  Rows of equal score come in an
\* order the database chooses, so this is the set of possible results.
ModeRows(mode) == SelectSeq(scores, LAMBDA row : row.gamemode = mode)

\* Mutant of Descending: no "ORDER BY", the rows come in any order.
Descending_Unordered(rows) ==
    {p \in [DOMAIN rows -> DOMAIN rows] :
        \A i, j \in DOMAIN rows : i # j => p[i] # p[j]}

Descending(rows) ==
    {p \in [DOMAIN rows -> DOMAIN rows] :
        /\ \A i, j \in DOMAIN rows : i # j => p[i] # p[j]
        /\ \A i, j \in DOMAIN rows : i < j => rows[p[i]].score >= rows[p[j]].score}

getModeScores(mode, limit) ==
    IF mode \notin knownGameModes THEN {<<>>}
    ELSE LET rows == ModeRows(mode)
             n == IF limit < Len(rows) THEN limit ELSE Len(rows)
         IN {[i \in 1..n |-> rows[p[i]]] : p \in Descending(rows)}

\* What the score engine is called with: the usernames, the scores tables
\* they may have (no row, or one row of mode "easy" with this score), the
\* data of a POST /score and the query of a GET /scores.  A stored score of
\* 1 comes from a first submission, any other from POST /overrideScore or
\* from a longer run of submissions.
UnknownMode == "bogus"

ScoreNames == {"alice", "FrostTaco"}

ScoreRow(username, s) ==
    [username |-> username, gamemode |-> "easy", score |-> s, deathcount |-> Num(0)]

StoredScores == {Num(1), Num(ScoreLimit), Num(-10)}

Submissions ==
    {ScoreData("easy", s) :
        s \in {Num(-1), Num(0), Fraction(0), Num(1), Num(2), Num(4), Num(ScoreLimit + 1)}}
    \cup {ScoreData(UnknownMode, Num(0))}

ScoreQueries == {[mode |-> m, limit |-> l] : m \in {"easy", UnknownMode}, l \in {0, 1}}

InitScore ==
    /\ \E username \in ScoreNames :
         /\ players = [u \in {"u1"} |-> NewPlayer(u, username)]
         /\ scores \in {<<>>} \cup {<<ScoreRow(username, s)>> : s \in StoredScores}
    /\ tokenCount = [u \in {"u1"} |-> 1]
    /\ req = [r \in Slots |-> Idle]
    /\ retired = [u \in {"u1"} |-> {}]

\* The callback of POST /score is called with the credentials of the
\* account and a data.
ScoreCallback(r) ==
    /\ NextToArrive(r)
    /\ \E u \in DOMAIN players, data \in Submissions :
         Continue(r, HandlerStart(
             [Idle EXCEPT !.route = "score",
                          !.body = [NoBody EXCEPT !.hasUuid = TRUE, !.uuid = u,
                                                  !.hasToken = TRUE,
                                                  !.hasData = TRUE, !.data = data],
                          !.cred = getCredentialsFromUUID(u)]))
    /\ UNCHANGED <<players, scores, tokenCount>>

\* GET /scores: "if (mode && limit)" getModeScores is called; its SELECT, if
\* it is issued, executes (dbOk) or throws and the result is [].  The rows'
\* playerinfo is read from columns no statement changes, so the endpoint is
\* one step: the step of its SELECT.
getScoresOf(r, queries) ==
    /\ NextToArrive(r)
    /\ \E query \in queries, dbOk \in BOOLEAN :
         LET called == query.limit # 0
             issued == called /\ query.mode \in knownGameModes
             q == [Idle EXCEPT !.route = "scores",
                               !.body = [NoBody EXCEPT !.hasData = TRUE,
                                            !.data = ScoreData(query.mode, Num(0))],
                               !.limit = query.limit,
                               !.scoreReads = IF issued THEN 1 ELSE 0,
                               !.threw = issued /\ ~dbOk]
         IN \E output \in IF called /\ dbOk
                          THEN getModeScores(query.mode, query.limit)
                          ELSE {<<>>} :
                Continue(r, Done(q, [scores |-> output]))
    /\ UNCHANGED <<players, scores, tokenCount>>

getScores(r) == getScoresOf(r, ScoreQueries)

NextScore ==
    \/ \E r \in Slots : ScoreCallback(r)
    \/ \E r \in Slots : GetPlayerScore(r)
    \/ \E r \in Slots : Insert(r)
    \/ \E r \in Slots : Update(r)
    \/ \E r \in Slots : getScores(r)

SpecScore == InitScore /\ [][NextScore]_vars

\* The same, each call made after the previous one returned.
NextScoreSeq ==
    \/ \E r \in Slots : Answered(r) /\ ScoreCallback(r)
    \/ \E r \in Slots : GetPlayerScore(r)
    \/ \E r \in Slots : Insert(r)
    \/ \E r \in Slots : Update(r)
    \/ \E r \in Slots : Answered(r) /\ getScores(r)

SpecScoreSeq == InitScore /\ [][NextScoreSeq]_vars

\* ---------------------------------------------- both score endpoints
\* The callbacks of POST /score and POST /overrideScore on a database that
\* starts with no score: the data's score and deathcount are any numbers
\* a client sends.
ScoreDataWith(m, s, d) == [ScoreData(m, s) EXCEPT !.deathcount = d]

BoardSubmissions ==
    {ScoreDataWith("easy", s, d) :
        s \in {Num(-5), Num(0), Num(1), Num(2), Num(ScoreLimit + 1)},
        d \in {Num(-1), Num(0)}}

InitBoard ==
    /\ \E username \in ScoreNames :
         players = [u \in {"u1"} |-> NewPlayer(u, username)]
    /\ scores = <<>>
    /\ tokenCount = [u \in {"u1"} |-> 1]
    /\ req = [r \in Slots |-> Idle]
    /\ retired = [u \in {"u1"} |-> {}]

\* The request a route's callback starts from, authentication done.
CallbackRequest(route, u, data) ==
    [Idle EXCEPT !.route = route,
                 !.body = [NoBody EXCEPT !.hasUuid = TRUE, !.uuid = u,
                                         !.hasToken = TRUE,
                                         !.hasData = TRUE, !.data = data],
                 !.cred = getCredentialsFromUUID(u)]

BoardCallback(r) ==
    /\ NextToArrive(r)
    /\ \E route \in {"score", "overrideScore"}, u \in DOMAIN players,
          data \in BoardSubmissions :
         Continue(r, HandlerStart(CallbackRequest(route, u, data)))
    /\ UNCHANGED <<players, scores, tokenCount>>

NextBoard ==
    \/ \E r \in Slots : BoardCallback(r)
    \/ \E r \in Slots : GetPlayerScore(r)
    \/ \E r \in Slots : Insert(r)
    \/ \E r \in Slots : Update(r)

SpecBoard == InitBoard /\ [][NextBoard]_vars

\* ------------------------------------------------------- the achievements
\* The callback of POST /addAchievement for three registered accounts, one
\* with an ordinary username and two with usernames isPlayerFrostTaco lists.
AwardNames == [u \in {"u1", "u2", "u3"} |->
                 CASE u = "u1" -> "alice"
                   [] u = "u2" -> "FrostTaco"
                   [] u = "u3" -> "ForgotMyPwd"]

AwardIds == {"a1", "a2"}

InitAward == InitWith(AwardNames)

AwardCallback(r) ==
    /\ NextToArrive(r)
    /\ \E u \in DOMAIN players, a \in AwardIds :
         Continue(r, HandlerStart(CallbackRequest("addAchievement", u,
                                                  AchievementData(a))))
    /\ UNCHANGED <<players, scores, tokenCount>>

NextAward ==
    \/ \E r \in Slots : AwardCallback(r)
    \/ \E r \in Slots : AwardSelect(r)
    \/ \E r \in Slots : AwardUpdate(r)

SpecAward == InitAward /\ [][NextAward]_vars

\* The same, each call made after the previous one returned.
NextAwardSeq ==
    \/ \E r \in Slots : Answered(r) /\ AwardCallback(r)
    \/ \E r \in Slots : AwardSelect(r)
    \/ \E r \in Slots : AwardUpdate(r)

SpecAwardSeq == InitAward /\ [][NextAwardSeq]_vars

\* ------------------------------------------------------- the leaderboard
\* GET /scores on a table with one row for each of three accounts, of mode
\* "easy" or "hard" and of score 1 (a first submission) or 2 (a second one).
TopNames == [u \in {"u1", "u2", "u3"} |->
               CASE u = "u1" -> "alice"
                 [] u = "u2" -> "bob"
                 [] u = "u3" -> "carol"]

TopRow(username, mode, s) == [ScoreRow(username, s) EXCEPT !.gamemode = mode]

TopQueries ==
    {[mode |-> m, limit |-> l] : m \in {"easy", "hard", UnknownMode}, l \in 0..3}

InitTop ==
    /\ players = [u \in DOMAIN TopNames |-> NewPlayer(u, TopNames[u])]
    /\ \E m \in [1..3 -> {"easy", "hard"}], s \in [1..3 -> {Num(1), Num(2)}] :
         scores = <<TopRow("alice", m[1], s[1]), TopRow("bob", m[2], s[2]),
                    TopRow("carol", m[3], s[3])>>
    /\ tokenCount = [u \in DOMAIN TopNames |-> 1]
    /\ req = [r \in Slots |-> Idle]
    /\ retired = [u \in DOMAIN TopNames |-> {}]

getTopScores(r) == getScoresOf(r, TopQueries)

NextTop == \E r \in Slots : getTopScores(r)

SpecTop == InitTop /\ [][NextTop]_vars

\* ------------------------------------------------------- the registration
\* POST /userRegister on a database with no account.  The username of a body
\* is any JSON value: text is String(value), string tells whether the value
\* is a string (the length of a number is undefined, and every comparison
\* with undefined is false).  Chars gives the characters of a text.
USERNAME_LENGTH_LIMIT == 20

WordChars ==
    {"a", "b", "c", "d", "e", "f", "g", "h", "i", "j", "k", "l", "m", "n", "o",
     "p", "q", "r", "s", "t", "u", "v", "w", "x", "y", "z",
     "A", "B", "C", "D", "E", "F", "G", "H", "I", "J", "K", "L", "M", "N", "O",
     "P", "Q", "R", "S", "T", "U", "V", "W", "X", "Y", "Z",
     "0", "1", "2", "3", "4", "5", "6", "7", "8", "9", "_"}

Repeat(c, n) == [i \in 1..n |-> c]

Chars(text) ==
    CASE text = "bob" -> <<"b", "o", "b">>
      [] text = "aaaaaaaaaaaaaaaaaaaa" -> Repeat("a", 20)
      [] text = "aaaaaaaaaaaaaaaaaaaaa" -> Repeat("a", 21)
      [] text = "ab" -> <<"a", "b">>
      [] text = "a b" -> <<"a", " ", "b">>
      [] text = "7" -> <<"7">>
      [] text = "" -> <<>>

\* /^[a-zA-Z0-9_]+$/.test(username)
WordOnly(text) ==
    Len(Chars(text)) > 0 /\ \A i \in DOMAIN Chars(text) : Chars(text)[i] \in WordChars

\* Auth.verifyUsername
verifyUsername(username) ==
    ~ \/ username.string /\ Len(Chars(username.text)) > USERNAME_LENGTH_LIMIT
      \/ username.string /\ Len(Chars(username.text)) < 3
      \/ ~WordOnly(username.text)

Text(text) == [string |-> TRUE, text |-> text]

\* The usernames clients send: strings of 0, 2, 3, 20 and 21 characters, one
\* with a space, and the number 7.
RegisterNames ==
    {Text("bob"), Text("aaaaaaaaaaaaaaaaaaaa"), Text("aaaaaaaaaaaaaaaaaaaaa"),
     Text("ab"), Text("a b"), Text(""), [string |-> FALSE, text |-> "7"]}

\* The uuid the database gives the row of request r ("DEFAULT
\* gen_random_uuid()"): a new one for each INSERT.
NewUuid(r) == <<"r1", "r2", "r3", "r4">>[r]

InitRegister == InitWith(<<>>)

\* The request arrives with a username and a password: verifyUsername, then
\* getCredentials is issued.
RegisterArrive(r) ==
    /\ NextToArrive(r)
    /\ \E username \in RegisterNames :
         LET q == [Idle EXCEPT !.route = "userRegister", !.username = username.text]
         IN Continue(r, IF verifyUsername(username)
                        THEN [q EXCEPT !.pc = "registerSelect"]
                        ELSE Done(q, [successful |-> FALSE, uuid |-> "",
                                      accesstoken |-> NullToken]))
    /\ UNCHANGED <<players, scores, tokenCount>>

\* Auth.getCredentials: the SELECT executes (dbOk) or throws (null); with no
\* existing credentials createCredentials runs up to its INSERT.
RegisterSelect(r) ==
    /\ req[r].pc = "registerSelect"
    /\ \E dbOk \in BOOLEAN :
         LET q == [req[r] EXCEPT !.threw = ~dbOk]
             existingCred == IF dbOk THEN getCredentials(q.username) ELSE NoCred
         IN Continue(r, IF existingCred = NoCred
                        THEN [q EXCEPT !.pc = "registerInsert"]
                        ELSE Done(q, [successful |-> FALSE, uuid |-> "",
                                      accesstoken |-> NullToken]))
    /\ UNCHANGED <<players, scores, tokenCount>>

\* Auth.createCredentials: the INSERT executes (dbOk) and returns the new
\* row, or throws (null).
RegisterInsert(r) ==
    /\ req[r].pc = "registerInsert"
    /\ \E dbOk \in BOOLEAN :
         LET q == [req[r] EXCEPT !.threw = @ \/ ~dbOk,
                                 !.dataWrites = IF dbOk THEN 1 ELSE 0]
             uuid == NewUuid(r)
             row == NewPlayer(uuid, q.username)
         IN /\ players' = IF dbOk THEN players @@ (uuid :> row) ELSE players
            /\ tokenCount' = IF dbOk THEN tokenCount @@ (uuid :> 1) ELSE tokenCount
            /\ req' = [req EXCEPT ![r] =
                   Done(q, IF dbOk
                           THEN [successful |-> TRUE, uuid |-> uuid,
                                 accesstoken |-> row.accesstoken]
                           ELSE [successful |-> FALSE, uuid |-> "",
                                 accesstoken |-> NullToken])]
            /\ retired' = IF dbOk THEN retired @@ (uuid :> {}) ELSE retired
    /\ UNCHANGED scores

NextRegister ==
    \/ \E r \in Slots : RegisterArrive(r)
    \/ \E r \in Slots : RegisterSelect(r)
    \/ \E r \in Slots : RegisterInsert(r)

SpecRegister == InitRegister /\ [][NextRegister]_vars

\* ------------------------------------------------------ every endpoint
\* GET /playerScores: getPlayerScores' SELECT executes (dbOk) or throws and
\* the result is [].  One step, as GET /scores.
playerScores(r) ==
    /\ NextToArrive(r)
    /\ \E username \in {players[u].username : u \in DOMAIN players} \cup {"nobody"},
          dbOk \in BOOLEAN :
         LET q == [Idle EXCEPT !.route = "playerScores", !.username = username,
                               !.scoreReads = 1, !.threw = ~dbOk]
             output == IF dbOk
                       THEN SelectSeq(scores, LAMBDA row : row.username = username)
                       ELSE <<>>
         IN Continue(r, Done(q, [scores |-> output]))
    /\ UNCHANGED <<players, scores, tokenCount>>

\* GET /playerAchievements: getPlayerAchievements' SELECT executes or throws;
\* the result is null when it throws and when there is no such player
\* (query.rows[0] is undefined).
playerAchievements(r) ==
    /\ NextToArrive(r)
    /\ \E username \in {players[u].username : u \in DOMAIN players} \cup {"nobody"},
          dbOk \in BOOLEAN :
         LET q == [Idle EXCEPT !.route = "playerAchievements",
                               !.username = username, !.threw = ~dbOk]
             found == dbOk /\ getCredentials(username) # NoCred
         IN Continue(r, Done(q, [achievements |->
                [null |-> ~found,
                 list |-> IF found THEN getPlayerAchievements(username) ELSE <<>>]]))
    /\ UNCHANGED <<players, scores, tokenCount>>

\* A sequential session over every endpoint, starting with one account.
NextStore ==
    \/ \E r \in Slots : Answered(r) /\ Arrive(r)
    \/ \E r \in Slots : Lookup(r)
    \/ \E r \in Slots : Rotate(r)
    \/ \E r \in Slots : GetPlayerScore(r)
    \/ \E r \in Slots : Insert(r)
    \/ \E r \in Slots : Update(r)
    \/ \E r \in Slots : AwardSelect(r)
    \/ \E r \in Slots : AwardUpdate(r)
    \/ \E r \in Slots : Answered(r) /\ userLogin(r)
    \/ \E r \in Slots : Answered(r) /\ userForceLogin(r)
    \/ \E r \in Slots : Answered(r) /\ userLogout(r)
    \/ \E r \in Slots : Answered(r) /\ RegisterArrive(r)
    \/ \E r \in Slots : RegisterSelect(r)
    \/ \E r \in Slots : RegisterInsert(r)
    \/ \E r \in Slots : Answered(r) /\ getScores(r)
    \/ \E r \in Slots : Answered(r) /\ playerScores(r)
    \/ \E r \in Slots : Answered(r) /\ playerAchievements(r)

SpecStore == Init /\ [][NextStore]_vars

\* ------------------------------------------------- incomplete score data
\* POST /score and POST /overrideScore with a body that has no data, or a
\* data that is {}, {mode, score}, a truthy primitive, or complete.
PartialData == [ScoreData("easy", Num(0)) EXCEPT !.fields = {"mode", "score"}]

PayloadCalls ==
    {[route |-> rt, hasData |-> FALSE, data |-> EmptyObject] :
        rt \in {"score", "overrideScore"}}
    \cup {[route |-> rt, hasData |-> TRUE, data |-> d] :
             rt \in {"score", "overrideScore"},
             d \in {EmptyObject, PartialData, PrimitiveData, ScoreData("easy", Num(0))}}

ArrivePayload(r) ==
    \E call \in PayloadCalls, auth \in AuthParts :
        /\ (auth.hasUuid /\ auth.hasToken) \/ ~call.hasData
        /\ Receive(r, call, auth)

NextPayload ==
    \/ \E r \in Slots : ArrivePayload(r)
    \/ \E r \in Slots : Lookup(r)
    \/ \E r \in Slots : Rotate(r)
    \/ \E r \in Slots : GetPlayerScore(r)
    \/ \E r \in Slots : Insert(r)
    \/ \E r \in Slots : Update(r)

SpecPayload == Init /\ [][NextPayload]_vars

\* ------------------------------------------- records of several keys
\* POST /score callbacks of two accounts on a table that holds records of
\* score 1 of both accounts and of two modes.
KeyNames == [u \in {"u1", "u2"} |-> IF u = "u1" THEN "alice" ELSE "bob"]

KeySubmissions ==
    {ScoreData(m, s) : m \in {"easy", "hard"}, s \in {Num(1), Num(2)}}

InitKeys ==
    /\ players = [u \in DOMAIN KeyNames |-> NewPlayer(u, KeyNames[u])]
    /\ scores \in {<<TopRow("alice", "hard", Num(1)), TopRow("bob", "easy", Num(1))>>,
                   <<TopRow("alice", "easy", Num(1)), TopRow("alice", "hard", Num(1)),
                     TopRow("bob", "easy", Num(1))>>}
    /\ tokenCount = [u \in DOMAIN KeyNames |-> 1]
    /\ req = [r \in Slots |-> Idle]
    /\ retired = [u \in DOMAIN KeyNames |-> {}]

KeysCallback(r) ==
    /\ NextToArrive(r)
    /\ \E u \in DOMAIN players, data \in KeySubmissions :
         Continue(r, HandlerStart(CallbackRequest("score", u, data)))
    /\ UNCHANGED <<players, scores, tokenCount>>

NextKeys ==
    \/ \E r \in Slots : KeysCallback(r)
    \/ \E r \in Slots : GetPlayerScore(r)
    \/ \E r \in Slots : Insert(r)
    \/ \E r \in Slots : Update(r)

SpecKeys == InitKeys /\ [][NextKeys]_vars

\* The compiled build src/server.js.  Its setPlayerScore has no special-cased
\* usernames, its createPlayerScore no limit on the first score, and its
\* UPDATE is
\* "UPDATE scores SET score = $2, deathcount = $3, timestamp = $4
\*  WHERE username = $1".
UpdateScoreJs(username, mode, nugget) ==
    [i \in DOMAIN scores |->
        IF scores[i].username = username
        THEN [scores[i] EXCEPT !.score = nugget.score,
                               !.deathcount = nugget.deathcount]
        ELSE scores[i]]

GetPlayerScoreJs(r) ==
    /\ req[r].pc = "getPlayerScore"
    /\ \E dbOk \in BOOLEAN :
         LET mode == RequestData(req[r].body).mode
             currentScore == IF dbOk THEN getPlayerScore(req[r].cred.username, mode)
                             ELSE NoScore
             allowScore == verifyScore(currentScore, req[r].nugget)
             q == [req[r] EXCEPT !.threw = @ \/ ~dbOk,
                                 !.scoreReads = @ + 1,
                                 !.currentScore = currentScore,
                                 !.allowScore = allowScore]
         IN Continue(r,
                IF ~allowScore THEN Finish(q, ScoreCallbackReturn(FALSE))
                ELSE IF ~currentScore.found THEN [q EXCEPT !.pc = "insert"]
                ELSE [q EXCEPT !.pc = "update"])
    /\ UNCHANGED <<players, scores, tokenCount>>

UpdateJs(r) ==
    /\ req[r].pc = "update"
    /\ \E dbOk \in BOOLEAN :
         LET q == req[r]
             ok == dbOk /\ IsInteger(q.nugget.score) /\ IsInteger(q.nugget.deathcount)
         IN /\ scores' = IF ok
                         THEN UpdateScoreJs(q.cred.username, RequestData(q.body).mode,
                                            q.nugget)
                         ELSE scores
            /\ Continue(r, Finish([q EXCEPT !.dataWrites = IF ok THEN @ + 1 ELSE @,
                                            !.threw = @ \/ ~ok],
                                  ScoreCallbackReturn(ok)))
    /\ UNCHANGED <<players, tokenCount>>

NextKeysJs ==
    \/ \E r \in Slots : KeysCallback(r)
    \/ \E r \in Slots : GetPlayerScoreJs(r)
    \/ \E r \in Slots : Insert(r)
    \/ \E r \in Slots : UpdateJs(r)

SpecKeysJs == InitKeys /\ [][NextKeysJs]_vars

\* ------------------------------------------------- a score sequence
\* POST /score callbacks, one after the other, on a database that starts
\* with no score.
SpecProgress == InitBoard /\ [][NextScoreSeq]_vars

\* ----------------------------------------------------------------- claims
\* The request went through processAuthRequest.
Piped(q) == q.route \in Routes /\ q.pc # "idle"

\* The request passed the verifyAccessToken check.
Verified(q) ==
    /\ Piped(q)
    /\ q.pc # "lookup"
    /\ ~(q.pc = "done" /\ q.resp.authError)

\* processCallback is running: it waits for one of its statements.
InHandler(q) ==
    q.pc \in {"getPlayerScore", "insert", "update", "awardSelect", "awardUpdate"}

\* No later request has been sent yet.
Latest(r) == \A p \in Slots : p > r => req[p].pc = "idle"

\* C1 (as claimed): a request that arrives presenting a token T1 that a
\* completed authenticated request has already replaced is rejected with the
\* invalid-token AuthError and its handler is not run.
C1_StaleTokenInvalidTokenError ==
    \A r \in Slots :
        LET q == req[r]
        IN (q.stale /\ q.pc # "lookup")
             => /\ q.pc = "done"
                /\ q.resp.authError
                /\ q.resp.authErrorString = "Access token is invalid."
                /\ ~q.handlerRan

\* C1 (amended): such a request is rejected with an AuthError and its
\* handler is not run; the error is the invalid-token error, except that it
\* is the invalid-id error when the credential lookup itself threw.
C1_StaleTokenRejected ==
    \A r \in Slots :
        LET q == req[r]
        IN (q.stale /\ q.pc # "lookup")
             => /\ q.pc = "done"
                /\ q.resp.authError
                /\ q.resp.authErrorString =
                       IF q.threw THEN "User UUID is invalid."
                       ELSE "Access token is invalid."
                /\ ~q.handlerRan
                /\ q.wrote = NullToken

C1_Witness ==
    \E r \in Slots :
        /\ req[r].stale
        /\ req[r].pc = "done"
        /\ req[r].resp.authError
        /\ req[r].resp.authErrorString = "Access token is invalid."

\* C2: for an account and a token T, at most one request presenting T passes
\* token verification.
C2_SingleUse ==
    \A r1, r2 \in Slots :
        (r1 # r2 /\ Verified(req[r1]) /\ Verified(req[r2]))
            => ~(/\ req[r1].body.uuid = req[r2].body.uuid
                 /\ req[r1].body.accesstoken = req[r2].body.accesstoken)

\* C3: in a sequential session, a request that passed authentication is
\* answered with an accessToken that differs from the presented token and is
\* the account's stored token (so it authenticates the next request).
C3_ReturnedTokenIsStored ==
    \A r \in Slots :
        LET q == req[r]
        IN (Piped(q) /\ q.pc = "done" /\ ~q.resp.authError /\ Latest(r))
             => /\ q.resp.accesstoken # q.body.accesstoken
                /\ q.resp.accesstoken = players[q.cred.uuid].accesstoken

\* C4: a request that presented a token different from the account's stored
\* token never changes the stored token: every step it takes leaves the
\* accesstoken column as it was.
C4_NoRotationOnMismatch ==
    [][\A r \in Slots :
          (req'[r].mismatch /\ req'[r] # req[r])
             => \A u \in DOMAIN players :
                    players'[u].accesstoken = players[u].accesstoken]_vars

C4_Witness ==
    \E r \in Slots :
        /\ req[r].pc = "done"
        /\ req[r].mismatch
        /\ ~req[r].threw
        /\ req[r].resp.authError
        /\ players[req[r].body.uuid].accesstoken # req[r].body.accesstoken

\* One of the four authentication failures happened to the request: id
\* missing, token missing, unknown account, or (once the credentials were
\* read) token mismatch.
AuthFailure(q) ==
    \/ ~q.body.hasUuid
    \/ ~q.body.hasToken
    \/ q.pc # "lookup" /\ (q.body.uuid \notin DOMAIN players \/ q.mismatch)

\* C5: on each of the four authentication failures the handler is not
\* invoked, the request writes neither a token nor a score nor an
\* achievement, and the response is {authError: true, authErrorString}
\* with a non-empty string and no accessToken.
C5_AuthErrorNoSideEffect ==
    \A r \in Slots :
        LET q == req[r]
        IN (Piped(q) /\ AuthFailure(q))
             => /\ q.pc = "done"
                /\ DOMAIN q.resp = {"authError", "authErrorString"}
                /\ q.resp.authError
                /\ q.resp.authErrorString # ""
                /\ ~q.handlerRan
                /\ q.wrote = NullToken
                /\ q.dataWrites = 0

C5_Witness ==
    \E r \in Slots :
        /\ Piped(req[r])
        /\ req[r].body.hasUuid
        /\ ~req[r].body.hasToken
        /\ req[r].resp = [authError |-> TRUE,
                          authErrorString |-> "User access token not provided."]

\* C6: the checks run in the order id-present, token-present,
\* account-exists, token-matches and the first that fails names the error.
C6_FirstFailingCheck ==
    \A r \in Slots :
        LET q == req[r]
        IN (Piped(q) /\ q.pc = "done" /\ q.resp.authError)
             => q.resp.authErrorString =
                    IF ~q.body.hasUuid THEN "User UUID not provided."
                    ELSE IF ~q.body.hasToken THEN "User access token not provided."
                    ELSE IF q.body.uuid \notin DOMAIN players \/ q.threw
                         THEN "User UUID is invalid."
                         ELSE "Access token is invalid."

C6_Witness ==
    \E r1, r2 \in Slots :
        /\ Piped(req[r1])
        /\ ~req[r1].body.hasUuid /\ ~req[r1].body.hasToken
        /\ req[r1].resp.authErrorString = "User UUID not provided."
        /\ Piped(req[r2])
        /\ req[r2].body.uuid = UnknownUUID
        /\ req[r2].body.accesstoken = <<"u1", 1>>
        /\ req[r2].pc = "done"
        /\ req[r2].resp.authErrorString = "User UUID is invalid."

\* C7: while the handler of a request runs, the new token has been written
\* and the token the request presented no longer passes verification.
C7_RotatedBeforeHandler ==
    \A r \in Slots :
        LET q == req[r]
        IN InHandler(q)
             => /\ q.wrote # NullToken
                /\ ~verifyAccessToken(getCredentialsFromUUID(q.cred.uuid),
                                      q.body.accesstoken)

C9_RotationFailureDenies ==
    \A r \in Slots :
        LET q == req[r]
        IN (Verified(q) /\ q.pc = "done" /\ q.wrote = NullToken)
             => /\ ~q.handlerRan
                /\ q.dataWrites = 0
                /\ ~(q.resp.authError = FALSE /\ q.resp.successful)

\* C10: a request that passed authentication and rotated the token, and
\* whose operation was rejected or failed (the callback returned anything
\* but true), is answered authError = false, successful = false, with the
\* rotated token.
C10_OperationFailureReported ==
    \A r \in Slots :
        LET q == req[r]
        IN (/\ Piped(q) /\ q.pc = "done" /\ q.handlerRan
            /\ q.wrote # NullToken /\ q.returned # "true")
             => /\ q.resp.authError = FALSE
                /\ q.resp.successful = FALSE
                /\ q.resp.accesstoken = q.wrote

\* C11: for each account exactly one token value passes verification; it is
\* the token stored last, and every token stored for the account before it
\* (by registration, login, force-login, logout or an authenticated request)
\* fails verification.
C11_SingleLiveToken ==
    \A u \in DOMAIN players :
        LET cred == getCredentialsFromUUID(u)
            live == {t \in Issued(u) \cup {NullToken} : verifyAccessToken(cred, t)}
        IN /\ Cardinality(live) = 1
           /\ verifyAccessToken(cred, <<u, tokenCount[u]>>)
           /\ \A n \in 1..(tokenCount[u] - 1) : ~verifyAccessToken(cred, <<u, n>>)

\* Tokens were replaced by a login and by an authenticated request, and the
\* earlier ones are refused.
C11_Witness ==
    \E r1, r2 \in Slots :
        /\ req[r1].route = "userLogin" /\ req[r1].wrote # NullToken
        /\ Piped(req[r2]) /\ req[r2].pc = "done" /\ req[r2].wrote # NullToken
        /\ req[r1].wrote # req[r2].wrote
        /\ tokenCount["u1"] = 3
        /\ ~verifyAccessToken(getCredentialsFromUUID("u1"), <<"u1", 1>>)
        /\ ~verifyAccessToken(getCredentialsFromUUID("u1"), <<"u1", 2>>)

\* The request was answered with the envelope of an authenticated request,
\* carrying the token the request stored.
Enveloped(q) ==
    /\ q.pc = "done"
    /\ q.resp.authError = FALSE
    /\ q.resp.accesstoken = q.wrote

\* C12: every request that passes authentication is eventually answered
\* with a response envelope carrying the new token, whatever its data field
\* (absent, an object, a string or number) and whatever the handler does.
C12_AuthenticatedAnswered ==
    \A r \in Slots : Verified(req[r]) ~> Enveloped(req[r])

\* The request is a call of setPlayerScore (the callback of POST /score
\* with mode, score and deathcount in its data); Submitted is the score
\* nugget it was called with.
IsSetScore(q) ==
    /\ q.route = "score" /\ q.handlerRan
    /\ {"mode", "score", "deathcount"} \subseteq RequestData(q.body).fields

Submitted(q) ==
    [score |-> RequestData(q.body).score, deathcount |-> RequestData(q.body).deathcount]

\* setPlayerScore returned: true or false.
SetScoreReturned(q) == IsSetScore(q) /\ q.pc = "done"

SetScoreResult(q) == q.returned = "true"

\* C13: verifyScore(current, submitted) is true exactly when
\* 0 <= submitted.score <= 999999 and, without a current record,
\* submitted.score is 0 or 1, or, with a current record, submitted.score is
\* current.score + 1.
C13_VerifyDecision ==
    \A r \in Slots :
        LET q == req[r]
            s == Submitted(q).score
        IN (IsSetScore(q) /\ q.scoreReads > 0)
             => (q.allowScore <=>
                    /\ Num(0) <= s /\ s <= Num(ScoreLimit)
                    /\ IF q.currentScore.found
                       THEN s = q.currentScore.score + Num(1)
                       ELSE s \in {Num(0), Num(1)})

\* C14: a setPlayerScore call with score < 0 or score > 999999 returns false
\* and executes no write, whatever record is stored.
C14_HardBounds ==
    \A r \in Slots :
        LET q == req[r]
            s == Submitted(q).score
        IN (IsSetScore(q) /\ (s < Num(0) \/ s > Num(ScoreLimit)))
             => /\ q.pc \in {"getPlayerScore", "done"}
                /\ q.dataWrites = 0
                /\ q.pc = "done" => ~SetScoreResult(q)

\* -1 and 1000000 were both submitted on a stored score of 999999 and
\* refused.
C14_Witness ==
    \E r1, r2 \in Slots :
        /\ SetScoreReturned(req[r1]) /\ SetScoreReturned(req[r2])
        /\ Submitted(req[r1]).score = Num(-1)
        /\ Submitted(req[r2]).score = Num(ScoreLimit + 1)
        /\ req[r1].currentScore = [found |-> TRUE, score |-> Num(ScoreLimit),
                                   deathcount |-> Num(0)]
        /\ req[r2].currentScore = req[r1].currentScore
        /\ ~SetScoreResult(req[r1]) /\ ~SetScoreResult(req[r2])
        /\ scores = <<ScoreRow("alice", Num(ScoreLimit))>>

\* The score stored for (username, mode) in a scores table: the rows of the
\* key, in the order of the table.
StoredRows(table, username, mode) ==
    SelectSeq(table, LAMBDA row : row.username = username /\ row.gamemode = mode)

\* C15: each accepted POST /score submission, by any account name, leaves
\* in the record of its (account, mode) the value 0 or 1 when there was no
\* record, and otherwise the previously stored value plus 1; the stored
\* score never decreases.  Stated for the submissions none of whose
\* statements threw.
C15_StoredScoreAdvancesByOne ==
    [][\A r \in Slots :
          (IsSetScore(req[r]) /\ req[r].pc \in {"insert", "update"}
             /\ req'[r].pc = "done" /\ SetScoreResult(req'[r]) /\ ~req'[r].threw)
          => LET old == StoredRows(scores, req[r].cred.username,
                                   RequestData(req[r].body).mode)
                 new == StoredRows(scores', req[r].cred.username,
                                   RequestData(req[r].body).mode)
             IN /\ Len(new) = 1
                /\ IF Len(old) = 0 THEN new[1].score \in {Num(0), Num(1)}
                   ELSE new[1].score = old[1].score + Num(1)]_vars

\* C16: over all endpoints, a request that is about to write or has written
\* a row of scores has, before that, read the current record and had
\* verifyScore accept its score against that record.
C16_WritesAreVerified ==
    \A r \in Slots :
        LET q == req[r]
        IN (q.pc \in {"insert", "update"} \/ (q.route \in Routes /\ q.dataWrites > 0
                                               /\ q.route # "addAchievement"))
             => /\ q.scoreReads > 0
                /\ q.allowScore

\* C17: in a sequence of calls, when setPlayerScore returns true the record
\* stored for (account, mode) holds exactly the submitted score and death
\* count.
C17_AcceptedScoreIsStored ==
    [][\A r \in Slots :
          (IsSetScore(req[r]) /\ req[r].pc # "done"
             /\ req'[r].pc = "done" /\ SetScoreResult(req'[r]))
          => LET new == StoredRows(scores', req[r].cred.username,
                                   RequestData(req[r].body).mode)
             IN /\ Len(new) = 1
                /\ new[1].score = Submitted(req[r]).score
                /\ new[1].deathcount = Submitted(req[r]).deathcount]_vars

\* C18: for a mode outside knownGameModes, setPlayerScore returns false and
\* getModeScores returns the empty sequence, and neither issues a statement
\* on the scores table.
C18_UnknownModeTouchesNothing ==
    \A r \in Slots :
        LET q == req[r]
        IN (/\ q.pc # "idle" /\ q.route \in {"score", "scores"}
            /\ RequestData(q.body).mode = UnknownMode)
             => /\ q.pc = "done"
                /\ q.scoreReads = 0
                /\ q.dataWrites = 0
                /\ ~q.threw
                /\ q.route = "score" => ~SetScoreResult(q)
                /\ q.route = "scores" => q.resp.scores = <<>>

\* Both were called with the unknown mode while the table has a row.
C18_Witness ==
    \E r1, r2 \in Slots :
        /\ req[r1].pc = "done" /\ req[r1].route = "score" /\ req[r1].handlerRan
        /\ RequestData(req[r1].body).mode = UnknownMode
        /\ req[r1].returned = "null"
        /\ req[r2].pc = "done" /\ req[r2].route = "scores"
        /\ RequestData(req[r2].body).mode = UnknownMode
        /\ req[r2].resp.scores = <<>>
        /\ Len(scores) > 0

\* C19: for an (account, mode), in every interleaving of setPlayerScore
\* calls, no two accepted submissions carry the same score.  Stated for the
\* calls none of whose statements threw.
C19_NoDuplicatedIncrement ==
    \A r1, r2 \in Slots :
        LET q1 == req[r1]
            q2 == req[r2]
        IN (/\ r1 # r2
            /\ SetScoreReturned(q1) /\ SetScoreResult(q1) /\ ~q1.threw
            /\ SetScoreReturned(q2) /\ SetScoreResult(q2) /\ ~q2.threw
            /\ q1.cred.username = q2.cred.username
            /\ RequestData(q1.body).mode = RequestData(q2.body).mode)
             => Submitted(q1).score # Submitted(q2).score

\* C20: when the read of the current record throws, setPlayerScore goes on
\* to no write and returns false, whatever the submitted score; when its
\* INSERT or UPDATE throws it returns false and has written nothing.
C20_StorageFailureRejects ==
    \A r \in Slots :
        LET q == req[r]
        IN (IsSetScore(q) /\ q.threw)
             => /\ q.pc = "done"
                /\ ~SetScoreResult(q)
                /\ q.dataWrites = 0


\* C21: in every reachable state every stored score is an integer between 0
\* and 999999.
C21_StoredScoreRange ==
    \A i \in DOMAIN scores :
        /\ IsInteger(scores[i].score)
        /\ Num(0) <= scores[i].score
        /\ scores[i].score <= Num(ScoreLimit)

\* C22: in every reachable state every stored death count is a non-negative
\* integer, and no POST /score whose deathcount is negative has written.
C22_StoredDeathCountRange ==
    /\ \A r \in Slots :
          req[r].route = "score" /\ req[r].nugget.deathcount < Num(0)
              => req[r].dataWrites = 0
    /\ \A i \in DOMAIN scores :
          /\ IsInteger(scores[i].deathcount)
          /\ Num(0) <= scores[i].deathcount


\* The stored achievements of the account with this username, and how often
\* an id occurs in a list.
StoredSet(table, username) ==
    table[CHOOSE u \in DOMAIN table : table[u].username = username].achievements

Occurrences(seq, x) == Cardinality({i \in DOMAIN seq : seq[i] = x})

IsAward(q) == q.route = "addAchievement" /\ "achievement" \in q.body.data.fields

AwardReturns(r) ==
    /\ IsAward(req[r])
    /\ req[r].pc \in {"awardSelect", "awardUpdate"}
    /\ req'[r].pc = "done"

\* C23 as claimed: in a sequential session, for an account that is not
\* special-cased, the first award of X returns true and every later one
\* false.
C23_FirstTrueLaterFalse ==
    [][\A r \in Slots :
         AwardReturns(r) /\ ~isPlayerFrostTaco(req[r].cred.username)
         => LET first == \A p \in 1..(r - 1) :
                             ~(/\ IsAward(req[p])
                               /\ req[p].cred.username = req[r].cred.username
                               /\ req[p].body.data.achievement
                                      = req[r].body.data.achievement)
            IN req'[r].returned = IF first THEN "true" ELSE "false"]_vars

\* C23: in a sequential session, for an account that is not special-cased,
\* an award of X returns null and leaves the set unchanged when a statement
\* throws; otherwise it returns true if X was not stored and false if it
\* was; X is stored exactly once from the first award that returned true on,
\* and never before.
C23_AwardIdempotent ==
    [][\A r \in Slots :
         AwardReturns(r) /\ ~isPlayerFrostTaco(req[r].cred.username)
         => LET username == req[r].cred.username
                X == req[r].body.data.achievement
                before == StoredSet(players, username)
                after == StoredSet(players', username)
                awarded == \E p \in 1..(r - 1) :
                               /\ IsAward(req[p])
                               /\ req[p].cred.username = username
                               /\ req[p].body.data.achievement = X
                               /\ req[p].returned = "true"
            IN /\ Occurrences(before, X) = IF awarded THEN 1 ELSE 0
               /\ req'[r].returned =
                      IF req'[r].threw THEN "null"
                      ELSE IF awarded THEN "false" ELSE "true"
               /\ req'[r].returned # "true" => after = before
               /\ req'[r].returned = "true" => Occurrences(after, X) = 1]_vars

\* C23 witness: the second award of a1 to alice returned false after the
\* first returned true, and a1 is stored once.
C23_Witness ==
    /\ MaxRequests >= 2
    /\ \A r \in 1..2 : /\ req[r].pc = "done" /\ IsAward(req[r])
                       /\ req[r].cred.username = "alice"
                       /\ req[r].body.data.achievement = "a1"
    /\ req[1].returned = "true"
    /\ req[2].returned = "false"
    /\ Occurrences(StoredSet(players, "alice"), "a1") = 1


\* C24: under any interleaving, once an award of X to an account that is not
\* special-cased has returned true, X is in the stored set of the account
\* exactly once.
C24_AwardedStays ==
    \A r \in Slots :
        /\ req[r].pc = "done" /\ IsAward(req[r])
        /\ req[r].returned = "true"
        /\ ~isPlayerFrostTaco(req[r].cred.username)
        => Occurrences(StoredSet(players, req[r].cred.username),
                       req[r].body.data.achievement) = 1


\* The usernames the wipe is written for.
SpecialNames == {"ForgotMyPwd", "FrostTaco", "scintiIla4evr"}

\* The usernames whose stored set lost an id that an award had returned true
\* for.
WipedNames ==
    {req[r].cred.username : r \in
        {p \in Slots : /\ req[p].pc = "done" /\ IsAward(req[p])
                       /\ req[p].returned = "true"
                       /\ Occurrences(StoredSet(players, req[p].cred.username),
                                      req[p].body.data.achievement) = 0}}

Completes(r, route) ==
    /\ req[r].pc # "done"
    /\ req'[r].pc = "done"
    /\ req'[r].route = route

\* C28: a POST /userLogin either answers successful=true with the uuid of an
\* account whose token it has rotated and with the token stored for that
\* account after the request, or answers successful=false with empty uuid
\* and token and leaves every stored token unchanged.
C28_LoginOutcome ==
    [][\A r \in Slots :
         Completes(r, "userLogin")
         => LET resp == req'[r].resp
            IN \/ /\ resp.successful
                  /\ resp.uuid \in DOMAIN players
                  /\ players'[resp.uuid].accesstoken # players[resp.uuid].accesstoken
                  /\ resp.accesstoken = players'[resp.uuid].accesstoken
               \/ /\ ~resp.successful
                  /\ resp.uuid = ""
                  /\ resp.accesstoken = NullToken
                  /\ players' = players]_vars


\* The tokens of account u that clients were sent: the one of the
\* registration and those of the responses so far.
Held(u) ==
    {<<u, 1>>} \cup
    {req[p].resp.accesstoken : p \in
        {p \in Slots : /\ req[p].pc = "done"
                       /\ "accesstoken" \in DOMAIN req[p].resp
                       /\ req[p].resp.accesstoken[1] = u}}

\* C29: when a POST /userLogout for an existing uuid is answered, no token
\* a client was sent for the account is the stored one, and the response is
\* successful=true without a token.
C29_LogoutInvalidates ==
    [][\A r \in Slots :
         Completes(r, "userLogout")
         => /\ req'[r].resp = [successful |-> TRUE]
            /\ req'[r].body.uuid \in DOMAIN players
               => players'[req'[r].body.uuid].accesstoken
                      \notin Held(req'[r].body.uuid)]_vars


\* C30: in every reachable state no two accounts have the same username and
\* every username has 3 to 20 characters, each a letter, a digit or "_".
C30_UsernamesUniqueAndValid ==
    /\ \A u, v \in DOMAIN players :
         u # v => players[u].username # players[v].username
    /\ \A u \in DOMAIN players :
         LET chars == Chars(players[u].username)
         IN /\ Len(chars) >= 3
            /\ Len(chars) <= 20
            /\ \A i \in DOMAIN chars : chars[i] \in WordChars


\* C27: when a statement of a request throws, the operation returns its
\* sentinel to the handler, which goes on with it, and no table is written:
\* null credentials, a null token, no current score, false from a score
\* write, null from an award or an achievement read, an empty list of
\* scores; no request is left without a response by the exception.
C27_NoStorageErrorEscapes ==
    [][\A r \in Slots :
         ~req[r].threw /\ req'[r].threw
         => LET q == req[r]
                n == req'[r]
            IN /\ n.pc # "unhandled"
               /\ players' = players /\ scores' = scores
               /\ q.pc = "lookup"
                  => n.pc = "done" /\ n.resp.authErrorString = "User UUID is invalid."
               /\ q.pc = "rotate" => n.newaccesstoken = NullToken /\ n.handlerRan
               /\ q.pc = "getPlayerScore" => n.currentScore = NoScore
               /\ q.pc \in {"insert", "update", "awardSelect", "awardUpdate"}
                  => n.pc = "done" /\ n.returned = "null"
               /\ q.pc = "registerSelect" => n.pc = "registerInsert"
               /\ q.pc = "registerInsert" => n.pc = "done" /\ ~n.resp.successful
               /\ q.pc = "idle"
                  => /\ n.pc = "done"
                     /\ n.route \in {"scores", "playerScores"} => n.resp.scores = <<>>
                     /\ n.route = "playerAchievements" => n.resp.achievements.null
                     /\ n.route \in {"userLogin", "userForceLogin"}
                        => n.resp.accesstoken = NullToken]_vars

\* C27 witness: the UPDATE of an award threw after the token was rotated,
\* and the request was answered with data null.
C27_Witness ==
    \E r \in Slots :
        /\ req[r].pc = "done" /\ IsAward(req[r])
        /\ req[r].wrote # NullToken
        /\ req[r].threw
        /\ req[r].returned = "null"
        /\ req[r].resp.data = "null"


\* The data the handler gets lacks one of mode, score, deathcount.
Incomplete(q) ==
    /\ q.route \in {"score", "overrideScore"}
    /\ ~({"mode", "score", "deathcount"} \subseteq RequestData(q.body).fields)

\* C31: a POST /score or POST /overrideScore whose data is absent or lacks one
\* of mode, score, deathcount and that passed authentication has, once the
\* rotation was done, run the handler, stored a new token, read and written
\* no score, and is answered with successful=false and the new token.
C31_IncompletePayload ==
    \A r \in Slots :
        Incomplete(req[r]) /\ Verified(req[r]) /\ req[r].pc # "rotate"
        => /\ req[r].pc = "done"
           /\ req[r].handlerRan
           /\ req[r].wrote # NullToken
           /\ req[r].scoreReads = 0 /\ req[r].dataWrites = 0
           /\ ~req[r].resp.successful
           /\ req[r].resp.accesstoken = req[r].wrote


\* C32: in every reachable state the scores table holds at most one record
\* for each username and mode.
C32_OneRecordPerKey ==
    \A i, j \in DOMAIN scores :
        scores[i].username = scores[j].username /\ scores[i].gamemode = scores[j].gamemode
        => i = j


\* C33: a setPlayerScore call that returns false has executed no INSERT and
\* no UPDATE, and the step in which it returns leaves every record of the
\* scores table as it was.
C33_RejectedWritesNothing ==
    [][\A r \in Slots :
         /\ req[r].pc # "done"
         /\ SetScoreReturned(req'[r])
         /\ ~SetScoreResult(req'[r])
         => /\ req'[r].dataWrites = 0
            /\ scores' = scores]_vars

\* C33 witness: with a record of score 1 stored, a submission of 4 was
\* rejected and the record is still there.
C33_Witness ==
    \E r \in Slots :
        /\ SetScoreReturned(req[r]) /\ ~SetScoreResult(req[r])
        /\ ~req[r].threw
        /\ req[r].currentScore.found /\ req[r].currentScore.score = Num(1)
        /\ Submitted(req[r]).score = Num(4)
        /\ \E i \in DOMAIN scores : scores[i].score = Num(1)


\* C34: the step in which a setPlayerScore call writes changes only the
\* records of the call's username and mode: every other record keeps its
\* place, score and death count, and a record that is added has the call's
\* username and mode.
C34_OnlyOwnKey ==
    [][\A r \in Slots :
         IsSetScore(req[r]) /\ req[r].pc \in {"insert", "update"} /\ scores' # scores
         => LET username == req[r].cred.username
                mode == RequestData(req[r].body).mode
                Own(row) == row.username = username /\ row.gamemode = mode
            IN /\ DOMAIN scores \subseteq DOMAIN scores'
               /\ \A i \in DOMAIN scores : ~Own(scores[i]) => scores'[i] = scores[i]
               /\ \A i \in DOMAIN scores' \ DOMAIN scores : Own(scores'[i])]_vars


\* C35: a step that changes the stored token of an account, and a step that
\* answers with the token stored for an account, is a step of a POST
\* /userLogin (which supplied the password) or of a request that went through
\* the check of the stored token.
C35_TokenOnlyForCredentials ==
    [][\A r \in Slots :
         req'[r] # req[r]
         => LET n == req'[r]
                changed == \E u \in DOMAIN players :
                               players'[u].accesstoken # players[u].accesstoken
                obtained == /\ n.pc = "done"
                            /\ "accesstoken" \in DOMAIN n.resp
                            /\ \E u \in DOMAIN players :
                                 n.resp.accesstoken = players'[u].accesstoken
            IN changed \/ obtained
               => \/ n.route = "userLogin"
                  \/ n.route \in Routes /\ req[r].pc # "idle" /\ req[r].pc # "lookup"]_vars


\* C36: for every account, while its stored score of a mode is below 999999
\* the submission of the stored score plus one passes verifyScore, and with
\* no record the submission of 0 does.
C36_NextScoreAcceptable ==
    \A u \in DOMAIN players :
        LET cur == getPlayerScore(players[u].username, "easy")
        IN IF cur.found
           THEN cur.score < Num(ScoreLimit)
                => verifyScore(cur, [score |-> cur.score + Num(1),
                                     deathcount |-> Num(0)])
           ELSE verifyScore(cur, [score |-> Num(0), deathcount |-> Num(0)])


\* C37: when a POST /overrideScore with mode, score s and death count d for
\* a known mode is answered, its callback has returned true and the records
\* of the account and mode, at least one, hold s and d.
C37_OverrideStores ==
    [][\A r \in Slots :
         Completes(r, "overrideScore") /\ ~Incomplete(req'[r])
         /\ RequestData(req'[r].body).mode = "easy"
         => LET rows == StoredRows(scores', req'[r].cred.username, "easy")
            IN /\ req'[r].returned = "true"
               /\ Len(rows) >= 1
               /\ \A i \in DOMAIN rows :
                    /\ rows[i].score = RequestData(req'[r].body).score
                    /\ rows[i].deathcount = RequestData(req'[r].body).deathcount]_vars

====
